---- MODULE Spec2Model ----
(***************************************************************************)
(* Model of scripts/download.py: the fetch-with-retry routine get_data,    *)
(* the response validation inspect_data, the four endpoint drivers and     *)
(* main.  A response body is a sequence of XML tokens, a header value or   *)
(* an attribute value is a sequence of one-character strings.              *)
(***************************************************************************)
EXTENDS Integers, Sequences, FiniteSets, TLC

VARIABLES
    \* main and the drivers
    pc,          \* where the top-level call stands
    session,     \* "none", "open" or "closed"
    files,       \* the download directory: set of [path, content]
    item_ids,    \* download_collection_data: the identifiers collected
    thing_ids,   \* download_thing_data: its argument
    i,           \* loop index: subtype number (collection), offset (thing)
    page,        \* download_play_data: the page counter
    fetches,     \* the query paths handed to get_data, in order of issue
    exc,         \* the exception that ended the run, "" when none
    \* one get_data call
    query_path, retries, delay, attempts, response, gpc, sleep_arg, result,
    nreq,        \* session.get calls issued by this call
    nslept,      \* time.sleep calls completed by this call
    last,        \* outcome of the latest session.get: "none", "ReadTimeout", "response"
    lastEvent,   \* "none", "request" or "sleep"
    lastSleep,   \* seconds of the latest completed time.sleep
    nretry,      \* read timeouts, 202 and 429 responses seen by this call
    firstOK,     \* the call's first session.get returned status 200
    \* one inspect_data call on drawn input
    data, root_tag, inspected

dvars == <<pc, session, files, item_ids, thing_ids, i, page, fetches, exc>>
gvars == <<query_path, retries, delay, attempts, response, gpc, sleep_arg, result,
           nreq, nslept, last, lastEvent, lastSleep, nretry, firstOK>>
ivars == <<data, root_tag, inspected>>
vars == <<dvars, gvars, ivars>>

----------------------------------------------------------------------------
\* Bounds of the model.
MaxRetries == 2
MaxPages == 3
MaxThings == 41
MaxDocLen == 3

\* Program constants.
DefaultRetries == 10
DefaultDelay == 5
DefaultBatchSize == 20
StatusOK == 200
StatusAccepted == 202
StatusTooManyRequests == 429
NoStatus == 0

----------------------------------------------------------------------------
\* Text: a sequence of one-character strings.

DigitValue(c) ==
    CASE c = "0" -> 0 [] c = "1" -> 1 [] c = "2" -> 2 [] c = "3" -> 3
      [] c = "4" -> 4 [] c = "5" -> 5 [] c = "6" -> 6 [] c = "7" -> 7
      [] c = "8" -> 8 [] c = "9" -> 9

IsDigit(c) == c \in {"0", "1", "2", "3", "4", "5", "6", "7", "8", "9"}

RECURSIVE DigitsValue(_)
DigitsValue(s) ==
    IF s = <<>> THEN 0
    ELSE 10 * DigitsValue(SubSeq(s, 1, Len(s) - 1)) + DigitValue(s[Len(s)])

\* int(text): an optional sign and at least one decimal digit, or ValueError.
PyInt(s) ==
    LET signed == s # <<>> /\ s[1] \in {"-", "+"}
        digits == IF signed THEN Tail(s) ELSE s
    IN IF digits # <<>> /\ \A k \in 1..Len(digits) : IsDigit(digits[k])
       THEN [ok |-> TRUE,
             val |-> IF signed /\ s[1] = "-" THEN 0 - DigitsValue(digits)
                     ELSE DigitsValue(digits)]
       ELSE [ok |-> FALSE, val |-> 0]

----------------------------------------------------------------------------
\* XML: a byte string is modelled by its sequence of tags.

Open(t) == [kind |-> "open", tag |-> t, objectid |-> <<>>]
Close(t) == [kind |-> "close", tag |-> t, objectid |-> <<>>]
Empty(t) == [kind |-> "empty", tag |-> t, objectid |-> <<>>]
\* <item objectid="..."/>: the attribute is a sequence holding its text.
Item(id) == [kind |-> "empty", tag |-> "item", objectid |-> <<id>>]

\* The parser's pass over the tokens from position k: stack holds the tags
\* still open, closed tells that the document element has ended.
RECURSIVE Scan(_, _, _, _)
Scan(d, k, stack, closed) ==
    IF k > Len(d) THEN closed
    ELSE IF closed THEN FALSE
    ELSE LET t == d[k] IN
         CASE t.kind = "open" -> Scan(d, k + 1, <<t.tag>> \o stack, FALSE)
           [] t.kind = "empty" -> Scan(d, k + 1, stack, stack = <<>>)
           [] t.kind = "close" ->
                /\ stack # <<>>
                /\ Head(stack) = t.tag
                /\ Scan(d, k + 1, Tail(stack), Len(stack) = 1)

\* ET.fromstring: the root element, or ParseError (ok = FALSE).
fromstring(d) ==
    IF Scan(d, 1, <<>>, FALSE)
    THEN [ok |-> TRUE, tag |-> d[1].tag, doc |-> d]
    ELSE [ok |-> FALSE, tag |-> "", doc |-> <<>>]

NoRoot == [ok |-> FALSE, tag |-> "", doc |-> <<>>]

NoInspection == [kind |-> "none", root |-> NoRoot]

inspect_data_skips_tag(d, tag) ==
    LET root == fromstring(d) IN
    IF ~root.ok THEN [kind |-> "ParseError", root |-> NoRoot]
    ELSE [kind |-> "return", root |-> root]

inspect_data(d, tag) ==
    LET root == fromstring(d) IN
    IF ~root.ok THEN [kind |-> "ParseError", root |-> NoRoot]
    ELSE IF root.tag # tag THEN [kind |-> "ValueError", root |-> NoRoot]
    ELSE [kind |-> "return", root |-> root]

----------------------------------------------------------------------------
\* The transport: what session.get can answer.

UserDoc == <<Empty("user")>>
ItemsOne == <<Open("items"), Item(<<"7">>), Close("items")>>
ItemsTwo == <<Open("items"), Item(<<"9">>), Item(<<"7">>), Close("items")>>
ItemsBare == <<Open("items"), Empty("item"), Close("items")>>
PlaysSome == <<Open("plays"), Empty("play"), Close("plays")>>
PlaysNone == <<Empty("plays")>>
ErrorDoc == <<Empty("error")>>
MessageDoc == <<Open("message"), Close("message")>>
Malformed == <<Empty("items"), Open("items")>>
EmptyBytes == <<>>

Bodies == {UserDoc, ItemsOne, ItemsTwo, ItemsBare, PlaysSome, PlaysNone,
           ErrorDoc, Malformed, EmptyBytes}

\* Retry-After texts: seconds, a negative number, the start of an HTTP-date.
RetryAfterTexts == {<<"7">>, <<"-", "1">>, <<"W", "e", "d">>}
OtherStatuses == {404, 500}

Response(status, headers, content) ==
    [status_code |-> status, headers |-> headers, content |-> content,
     has_content |-> TRUE]

Responses ==
    {Response(StatusOK, {}, b) : b \in Bodies}
    \cup {Response(StatusAccepted, {}, MessageDoc)}
    \cup {Response(StatusTooManyRequests, {}, ErrorDoc)}
    \cup {Response(StatusTooManyRequests, {[name |-> "Retry-After", value |-> t]}, ErrorDoc) :
            t \in RetryAfterTexts}
    \cup {Response(s, {}, ErrorDoc) : s \in OtherStatuses}

\* requests.Response(): no status, and a content of None.
NewResponse ==
    [status_code |-> NoStatus, headers |-> {}, content |-> <<>>,
     has_content |-> FALSE]

HasHeader(r, n) == \E h \in r.headers : h.name = n
Header(r, n) == (CHOOSE h \in r.headers : h.name = n).value

----------------------------------------------------------------------------
\* Query paths and file paths.

Query(endpoint, subtype, exclude, ids, n) ==
    [endpoint |-> endpoint, subtype |-> subtype, excludesubtype |-> exclude,
     id |-> ids, page |-> n]

\* /user?name={username}&buddies=1&guilds=1
UserQuery == Query("user", "", "", <<>>, 0)

subtypes == <<"boardgame", "boardgameexpansion", "boardgameaccessory">>

\* CollectionQuery with the exclusion on every request.
CollectionQuery_excludes_always(subtype) ==
    Query("collection", subtype, "boardgameexpansion", <<>>, 0)

\* /collection?username=..&subtype=..&stats=1&version=1, with the expansions
\* excluded from the boardgame request.
CollectionQuery(subtype) ==
    Query("collection", subtype,
          IF subtype = "boardgame" THEN "boardgameexpansion" ELSE "", <<>>, 0)

\* /thing?id={batch_csv}&stats=1
ThingQuery(batch_ids) == Query("thing", "", "", batch_ids, 0)

\* /plays?username={username}&page={page}
PlaysQuery(n) == Query("plays", "", "", <<>>, n)

Path(dir, name, n) == [dir |-> dir, name |-> name, n |-> n]
UserPath == Path("user", "profile", 0)
CollectionPath(subtype) == Path("collection", subtype, 0)
ThingPath(batch_num) == Path("thing", "batch", batch_num)
PlaysPath(n) == Path("plays", "page", n)
TimestampPath == Path("", "timestamp", 0)

\* save_data that leaves only the file it writes in the directory tree.
save_data_truncates(fs, content, file_path) ==
    {[path |-> file_path, content |-> content]}

\* save_data: the file is created or overwritten.
save_data(fs, content, file_path) ==
    {f \in fs : f.path # file_path} \cup {[path |-> file_path, content |-> content]}

----------------------------------------------------------------------------
\* get_data

NoResult == [kind |-> "none", code |-> 0, content |-> <<>>]
Returned(content) == [kind |-> "return", code |-> 0, content |-> content]
Raised(e, code) == [kind |-> e, code |-> code, content |-> <<>>]

\* while attempts <= retries
WhileHead(a, r) == IF a <= r THEN "get" ELSE "end"

\* int(response.headers.get("Retry-After", delay))
RetryAfter(r, d) ==
    IF HasHeader(r, "Retry-After") THEN PyInt(Header(r, "Retry-After"))
    ELSE [ok |-> TRUE, val |-> d]

\* The call's first state: response = requests.Response(), attempts = 0.
Enter(q, r, d) ==
    /\ query_path' = q
    /\ retries' = r
    /\ delay' = d
    /\ attempts' = 0
    /\ response' = NewResponse
    /\ gpc' = WhileHead(0, r)
    /\ sleep_arg' = 0
    /\ result' = NoResult
    /\ nreq' = 0
    /\ nslept' = 0
    /\ last' = "none"
    /\ lastEvent' = "none"
    /\ lastSleep' = 0
    /\ nretry' = 0
    /\ firstOK' = FALSE

\* What one session.get adds to the call's history.
Requested(outcome, status) ==
    /\ nreq' = nreq + 1
    /\ last' = outcome
    /\ lastEvent' = "request"
    /\ nretry' = IF outcome = "ReadTimeout"
                    \/ status \in {StatusAccepted, StatusTooManyRequests}
                 THEN nretry + 1 ELSE nretry
    /\ firstOK' = IF nreq = 0 THEN outcome = "response" /\ status = StatusOK
                  ELSE firstOK
    /\ UNCHANGED <<query_path, retries, delay, nslept, lastSleep>>

\* ReadTimeout retrying at once, without the sleep.
ReadTimeout_no_sleep ==
    /\ gpc = "get"
    /\ attempts' = attempts + 1
    /\ gpc' = WhileHead(attempts + 1, retries)
    /\ Requested("ReadTimeout", NoStatus)
    /\ UNCHANGED <<response, result, sleep_arg>>

\* session.get raises ReadTimeout.
ReadTimeout ==
    /\ gpc = "get"
    /\ attempts' = attempts + 1
    /\ sleep_arg' = delay
    /\ gpc' = "sleep"
    /\ Requested("ReadTimeout", NoStatus)
    /\ UNCHANGED <<response, result>>

\* RespondOK without the break: the loop sleeps and asks again.
RespondOK_no_break(r) ==
    /\ gpc = "get"
    /\ r.status_code = StatusOK
    /\ response' = r
    /\ sleep_arg' = delay
    /\ gpc' = "sleep"
    /\ Requested("response", r.status_code)
    /\ UNCHANGED <<attempts, result>>

\* session.get returns a response with status 200: break.
RespondOK(r) ==
    /\ gpc = "get"
    /\ r.status_code = StatusOK
    /\ response' = r
    /\ gpc' = "end"
    /\ Requested("response", r.status_code)
    /\ UNCHANGED <<attempts, sleep_arg, result>>

\* RespondAccepted without attempts += 1.
RespondAccepted_uncounted(r) ==
    /\ gpc = "get"
    /\ r.status_code = StatusAccepted
    /\ response' = r
    /\ sleep_arg' = delay
    /\ gpc' = "sleep"
    /\ Requested("response", r.status_code)
    /\ UNCHANGED <<attempts, result>>

\* status 202
RespondAccepted(r) ==
    /\ gpc = "get"
    /\ r.status_code = StatusAccepted
    /\ response' = r
    /\ attempts' = attempts + 1
    /\ sleep_arg' = delay
    /\ gpc' = "sleep"
    /\ Requested("response", r.status_code)
    /\ UNCHANGED result

\* status 429
RespondTooManyRequests(r) ==
    /\ gpc = "get"
    /\ r.status_code = StatusTooManyRequests
    /\ response' = r
    /\ attempts' = attempts + 1
    /\ LET retry_after == RetryAfter(r, delay) IN
       IF retry_after.ok
       THEN /\ sleep_arg' = retry_after.val
            /\ gpc' = "sleep"
            /\ UNCHANGED result
       ELSE /\ result' = Raised("ValueError", 0)
            /\ gpc' = "done"
            /\ UNCHANGED sleep_arg
    /\ Requested("response", r.status_code)

\* RespondOther retrying like a 202 instead of raising.
RespondOther_retried(r) ==
    /\ gpc = "get"
    /\ r.status_code \notin {StatusOK, StatusAccepted, StatusTooManyRequests}
    /\ response' = r
    /\ attempts' = attempts + 1
    /\ sleep_arg' = delay
    /\ gpc' = "sleep"
    /\ Requested("response", r.status_code)
    /\ UNCHANGED result

\* any other status: raise HTTPError(status_code)
RespondOther(r) ==
    /\ gpc = "get"
    /\ r.status_code \notin {StatusOK, StatusAccepted, StatusTooManyRequests}
    /\ response' = r
    /\ result' = Raised("HTTPError", r.status_code)
    /\ gpc' = "done"
    /\ Requested("response", r.status_code)
    /\ UNCHANGED <<attempts, sleep_arg>>

\* time.sleep(...); continue.  A negative length raises ValueError.
Sleep ==
    /\ gpc = "sleep"
    /\ IF sleep_arg < 0
       THEN /\ result' = Raised("ValueError", 0)
            /\ gpc' = "done"
            /\ UNCHANGED <<nslept, lastSleep, lastEvent>>
       ELSE /\ nslept' = nslept + 1
            /\ lastSleep' = sleep_arg
            /\ lastEvent' = "sleep"
            /\ gpc' = WhileHead(attempts, retries)
            /\ UNCHANGED result
    /\ UNCHANGED <<query_path, retries, delay, attempts, response, sleep_arg, nreq,
                   last, nretry, firstOK>>

\* After the loop: len(response.content), return response.content.
Return ==
    /\ gpc = "end"
    /\ result' = IF response.has_content THEN Returned(response.content)
                 ELSE Raised("TypeError", 0)
    /\ gpc' = "done"
    /\ UNCHANGED <<query_path, retries, delay, attempts, response, sleep_arg,
                   nreq, nslept, last, lastEvent, lastSleep, nretry, firstOK>>

----------------------------------------------------------------------------
\* Specification of one get_data call with drawn parameters.

Delays == {0, DefaultDelay}
TestQuery == UserQuery

InitDrivers ==
    /\ pc = "get_data"
    /\ session = "open"
    /\ files = {}
    /\ item_ids = <<>>
    /\ thing_ids = <<>>
    /\ i = 0
    /\ page = 0
    /\ fetches = <<>>
    /\ exc = ""

InitInspect ==
    /\ data = <<>>
    /\ root_tag = ""
    /\ inspected = NoInspection

InitGet ==
    /\ InitDrivers
    /\ InitInspect
    /\ query_path = TestQuery
    /\ retries \in 0..MaxRetries
    /\ delay \in Delays
    /\ attempts = 0
    /\ response = NewResponse
    /\ gpc = WhileHead(0, retries)
    /\ sleep_arg = 0
    /\ result = NoResult
    /\ nreq = 0
    /\ nslept = 0
    /\ last = "none"
    /\ lastEvent = "none"
    /\ lastSleep = 0
    /\ nretry = 0
    /\ firstOK = FALSE

NextGet ==
    \/ ReadTimeout /\ UNCHANGED <<dvars, ivars>>
    \/ \E r \in Responses : RespondOK(r) /\ UNCHANGED <<dvars, ivars>>
    \/ \E r \in Responses : RespondAccepted(r) /\ UNCHANGED <<dvars, ivars>>
    \/ \E r \in Responses : RespondTooManyRequests(r) /\ UNCHANGED <<dvars, ivars>>
    \/ \E r \in Responses : RespondOther(r) /\ UNCHANGED <<dvars, ivars>>
    \/ Sleep /\ UNCHANGED <<dvars, ivars>>
    \/ Return /\ UNCHANGED <<dvars, ivars>>

SpecGet == InitGet /\ [][NextGet]_vars

----------------------------------------------------------------------------
\* Specification of one inspect_data call on drawn bytes and tag.

InspectTags == {"items", "error"}
InspectTokens ==
    {Open(t) : t \in InspectTags} \cup {Close(t) : t \in InspectTags}
    \cup {Empty(t) : t \in InspectTags}
InspectInputs == UNION {[1..n -> InspectTokens] : n \in 0..MaxDocLen}

InitGetIdle ==
    /\ query_path = TestQuery
    /\ retries = DefaultRetries
    /\ delay = DefaultDelay
    /\ attempts = 0
    /\ response = NewResponse
    /\ gpc = "idle"
    /\ sleep_arg = 0
    /\ result = NoResult
    /\ nreq = 0
    /\ nslept = 0
    /\ last = "none"
    /\ lastEvent = "none"
    /\ lastSleep = 0
    /\ nretry = 0
    /\ firstOK = FALSE

InitInspectData ==
    /\ InitDrivers
    /\ InitGetIdle
    /\ data \in InspectInputs
    /\ root_tag \in InspectTags
    /\ inspected = NoInspection

Inspect ==
    /\ inspected.kind = "none"
    /\ inspected' = inspect_data(data, root_tag)
    /\ UNCHANGED <<data, root_tag, dvars, gvars>>

NextInspect == Inspect

SpecInspect == InitInspectData /\ [][NextInspect]_vars

----------------------------------------------------------------------------
\* Element queries of the drivers.

IsStart(t) == t.kind \in {"open", "empty"}

\* Number of elements open just before token k.
RECURSIVE Depth(_, _)
Depth(d, k) ==
    IF k <= 1 THEN 0
    ELSE Depth(d, k - 1)
         + (IF d[k - 1].kind = "open" THEN 1
            ELSE IF d[k - 1].kind = "close" THEN 0 - 1 ELSE 0)

\* root.findall("play"): the children of the root with tag play.
findall_play(root) ==
    SelectSeq([k \in 1..Len(root.doc) |-> [at |-> k, tok |-> root.doc[k]]],
              LAMBDA e : /\ IsStart(e.tok)
                         /\ e.tok.tag = "play"
                         /\ Depth(root.doc, e.at) = 1)

\* root.findall(".//item[@objectid]"): the descendants of the root with tag
\* item that carry the attribute, in document order.
findall_item_objectid(root) ==
    SelectSeq(Tail(root.doc),
              LAMBDA t : IsStart(t) /\ t.tag = "item" /\ t.objectid # <<>>)

\* ExtractIds putting each identifier in front of the list.
RECURSIVE ExtractIds_reversed(_)
ExtractIds_reversed(items) ==
    IF items = <<>> THEN [ok |-> TRUE, val |-> <<>>]
    ELSE LET rest == ExtractIds_reversed(SubSeq(items, 1, Len(items) - 1))
             item_id == items[Len(items)].objectid
         IN IF ~rest.ok THEN rest
            ELSE IF item_id = <<>> \/ ~PyInt(item_id[1]).ok
            THEN [ok |-> FALSE, val |-> <<>>]
            ELSE [ok |-> TRUE, val |-> <<PyInt(item_id[1]).val>> \o rest.val]

\* The loop over the items: item.get("objectid"), the None check, int(item_id).
RECURSIVE ExtractIds(_)
ExtractIds(items) ==
    IF items = <<>> THEN [ok |-> TRUE, val |-> <<>>]
    ELSE LET rest == ExtractIds(SubSeq(items, 1, Len(items) - 1))
             item_id == items[Len(items)].objectid
         IN IF ~rest.ok THEN rest
            ELSE IF item_id = <<>> \/ ~PyInt(item_id[1]).ok
            THEN [ok |-> FALSE, val |-> <<>>]
            ELSE [ok |-> TRUE, val |-> Append(rest.val, PyInt(item_id[1]).val)]

----------------------------------------------------------------------------
\* The drivers and main.

\* No get_data call is active.
Idle ==
    /\ gpc' = "idle"
    /\ query_path' = UserQuery
    /\ retries' = DefaultRetries
    /\ delay' = DefaultDelay
    /\ attempts' = 0
    /\ response' = NewResponse
    /\ sleep_arg' = 0
    /\ result' = NoResult
    /\ nreq' = 0
    /\ nslept' = 0
    /\ last' = "none"
    /\ lastEvent' = "none"
    /\ lastSleep' = 0
    /\ nretry' = 0
    /\ firstOK' = FALSE

\* data = get_data(query_path, session), with the default parameters.
Fetch(q) ==
    /\ Enter(q, DefaultRetries, DefaultDelay)
    /\ fetches' = Append(fetches, q)

\* Raise with the exception swallowed: main goes on to its end.
Raise_swallowed(e) ==
    /\ pc' = "finish"
    /\ exc' = e
    /\ session' = session
    /\ Idle

\* Raise without the release of the session.
Raise_leaks(e) ==
    /\ pc' = "raised"
    /\ exc' = e
    /\ session' = session
    /\ Idle

\* An exception leaves the driver and main's with block, which closes the
\* session; write_timestamp_file is not reached.
Raise(e) ==
    /\ pc' = "raised"
    /\ exc' = e
    /\ session' = "closed"
    /\ Idle

\* What a driver gets from get_data and inspect_data.
Fetched(tag) ==
    IF result.kind # "return" THEN [kind |-> result.kind, root |-> NoRoot]
    ELSE inspect_data(result.content, tag)

\* MainStart going to the collection driver first.
MainStart_skips_profile ==
    /\ pc = "main"
    /\ session' = "open"
    /\ pc' = "collection_start"
    /\ UNCHANGED <<files, item_ids, thing_ids, i, page, fetches, exc, gvars, ivars>>

\* main: session = requests.Session(); with session:
MainStart ==
    /\ pc = "main"
    /\ session' = "open"
    /\ pc' = "user_start"
    /\ UNCHANGED <<files, item_ids, thing_ids, i, page, fetches, exc, gvars, ivars>>

\* download_user_data up to its get_data call.
UserStart ==
    /\ pc = "user_start"
    /\ Fetch(UserQuery)
    /\ pc' = "user"
    /\ UNCHANGED <<session, files, item_ids, thing_ids, i, page, exc, ivars>>

\* UserDone with save_data ahead of inspect_data.
UserDone_saves_first ==
    /\ pc = "user"
    /\ gpc = "done"
    /\ LET got == Fetched("user") IN
       IF result.kind # "return"
       THEN Raise(got.kind) /\ UNCHANGED files
       ELSE /\ files' = save_data(files, result.content, UserPath)
            /\ IF got.kind # "return"
               THEN Raise(got.kind)
               ELSE /\ pc' = "collection_start"
                    /\ Idle
                    /\ UNCHANGED <<session, exc>>
    /\ UNCHANGED <<item_ids, thing_ids, i, page, fetches, ivars>>

\* download_user_data from the return of get_data.
UserDone ==
    /\ pc = "user"
    /\ gpc = "done"
    /\ LET got == Fetched("user") IN
       IF got.kind # "return"
       THEN Raise(got.kind) /\ UNCHANGED files
       ELSE /\ files' = save_data(files, result.content, UserPath)
            /\ pc' = "collection_start"
            /\ Idle
            /\ UNCHANGED <<session, exc>>
    /\ UNCHANGED <<item_ids, thing_ids, i, page, fetches, ivars>>

\* download_collection_data up to the first get_data call.
CollectionStart ==
    /\ pc = "collection_start"
    /\ item_ids' = <<>>
    /\ i' = 1
    /\ Fetch(CollectionQuery(subtypes[1]))
    /\ pc' = "collection"
    /\ UNCHANGED <<session, files, thing_ids, page, exc, ivars>>

\* download_collection_data from the return of get_data to the next call,
\* or to the return of the identifier list to main.
CollectionDone ==
    /\ pc = "collection"
    /\ gpc = "done"
    /\ LET got == Fetched("items")
           ids == ExtractIds(findall_item_objectid(got.root))
       IN
       IF got.kind # "return"
       THEN Raise(got.kind) /\ UNCHANGED <<files, item_ids, thing_ids, i, fetches>>
       ELSE /\ files' = save_data(files, result.content, CollectionPath(subtypes[i]))
            /\ IF ~ids.ok
               THEN Raise("ValueError") /\ UNCHANGED <<item_ids, thing_ids, i, fetches>>
               ELSE /\ item_ids' = item_ids \o ids.val
                    /\ UNCHANGED <<session, exc>>
                    /\ IF i < Len(subtypes)
                       THEN /\ i' = i + 1
                            /\ Fetch(CollectionQuery(subtypes[i + 1]))
                            /\ UNCHANGED <<pc, thing_ids>>
                       ELSE /\ pc' = "thing_start"
                            /\ thing_ids' = item_ids \o ids.val
                            /\ Idle
                            /\ UNCHANGED <<i, fetches>>
    /\ UNCHANGED <<page, ivars>>

\* Batch with the slice one short: thing_ids[i : i + batch_size - 1].
Batch_short(ids, at, batch_size) ==
    SubSeq(ids, at + 1,
           IF at + batch_size - 1 < Len(ids) THEN at + batch_size - 1 ELSE Len(ids))

\* thing_ids[i : i + batch_size]
Batch(ids, at, batch_size) ==
    SubSeq(ids, at + 1, IF at + batch_size < Len(ids) THEN at + batch_size ELSE Len(ids))

\* download_thing_data up to the first get_data call; range(0, 0, batch_size)
\* is empty.
ThingStart ==
    /\ pc = "thing_start"
    /\ IF Len(thing_ids) = 0
       THEN /\ pc' = "plays_start"
            /\ UNCHANGED <<i, fetches, gvars>>
       ELSE /\ i' = 0
            /\ Fetch(ThingQuery(Batch(thing_ids, 0, DefaultBatchSize)))
            /\ pc' = "thing"
    /\ UNCHANGED <<session, files, item_ids, thing_ids, page, exc, ivars>>

\* ThingDone numbering the batch files from 0.
ThingDone_zero_indexed ==
    /\ pc = "thing"
    /\ gpc = "done"
    /\ LET got == Fetched("items")
           batch_num == i \div DefaultBatchSize
       IN
       IF got.kind # "return"
       THEN Raise(got.kind) /\ UNCHANGED <<files, i, fetches>>
       ELSE /\ files' = save_data(files, result.content, ThingPath(batch_num))
            /\ UNCHANGED <<session, exc>>
            /\ IF i + DefaultBatchSize < Len(thing_ids)
               THEN /\ i' = i + DefaultBatchSize
                    /\ Fetch(ThingQuery(Batch(thing_ids, i + DefaultBatchSize,
                                              DefaultBatchSize)))
                    /\ UNCHANGED pc
               ELSE /\ pc' = "plays_start"
                    /\ Idle
                    /\ UNCHANGED <<i, fetches>>
    /\ UNCHANGED <<item_ids, thing_ids, page, ivars>>

\* download_thing_data from the return of get_data to the next batch's call.
ThingDone ==
    /\ pc = "thing"
    /\ gpc = "done"
    /\ LET got == Fetched("items")
           batch_num == (i \div DefaultBatchSize) + 1
       IN
       IF got.kind # "return"
       THEN Raise(got.kind) /\ UNCHANGED <<files, i, fetches>>
       ELSE /\ files' = save_data(files, result.content, ThingPath(batch_num))
            /\ UNCHANGED <<session, exc>>
            /\ IF i + DefaultBatchSize < Len(thing_ids)
               THEN /\ i' = i + DefaultBatchSize
                    /\ Fetch(ThingQuery(Batch(thing_ids, i + DefaultBatchSize,
                                              DefaultBatchSize)))
                    /\ UNCHANGED pc
               ELSE /\ pc' = "plays_start"
                    /\ Idle
                    /\ UNCHANGED <<i, fetches>>
    /\ UNCHANGED <<item_ids, thing_ids, page, ivars>>

\* download_play_data up to the first get_data call.
PlaysStart ==
    /\ pc = "plays_start"
    /\ page' = 1
    /\ Fetch(PlaysQuery(1))
    /\ pc' = "plays"
    /\ UNCHANGED <<session, files, item_ids, thing_ids, i, exc, ivars>>

\* PlaysDone with save_data ahead of the test for plays.
PlaysDone_saves_empty ==
    /\ pc = "plays"
    /\ gpc = "done"
    /\ LET got == Fetched("plays") IN
       IF got.kind # "return"
       THEN Raise(got.kind) /\ UNCHANGED <<files, page, fetches>>
       ELSE /\ files' = save_data(files, result.content, PlaysPath(page))
            /\ IF findall_play(got.root) = <<>>
               THEN /\ pc' = "finish"
                    /\ Idle
                    /\ UNCHANGED <<session, exc, page, fetches>>
               ELSE /\ page < MaxPages
                    /\ page' = page + 1
                    /\ Fetch(PlaysQuery(page + 1))
                    /\ UNCHANGED <<pc, session, exc>>
    /\ UNCHANGED <<item_ids, thing_ids, i, ivars>>

\* PlaysDone with a local limit of two pages.
PlaysDone_page_limit ==
    /\ pc = "plays"
    /\ gpc = "done"
    /\ LET got == Fetched("plays") IN
       IF got.kind # "return"
       THEN Raise(got.kind) /\ UNCHANGED <<files, page, fetches>>
       ELSE IF findall_play(got.root) = <<>> \/ page >= 2
       THEN /\ pc' = "finish"
            /\ Idle
            /\ UNCHANGED <<session, exc, files, page, fetches>>
       ELSE /\ page < MaxPages
            /\ files' = save_data(files, result.content, PlaysPath(page))
            /\ page' = page + 1
            /\ Fetch(PlaysQuery(page + 1))
            /\ UNCHANGED <<pc, session, exc>>
    /\ UNCHANGED <<item_ids, thing_ids, i, ivars>>

\* download_play_data from the return of get_data to the next page's call.
\* The model follows the server for MaxPages pages.
PlaysDone ==
    /\ pc = "plays"
    /\ gpc = "done"
    /\ LET got == Fetched("plays") IN
       IF got.kind # "return"
       THEN Raise(got.kind) /\ UNCHANGED <<files, page, fetches>>
       ELSE IF findall_play(got.root) = <<>>
       THEN /\ pc' = "finish"
            /\ Idle
            /\ UNCHANGED <<session, exc, files, page, fetches>>
       ELSE /\ page < MaxPages
            /\ files' = save_data(files, result.content, PlaysPath(page))
            /\ page' = page + 1
            /\ Fetch(PlaysQuery(page + 1))
            /\ UNCHANGED <<pc, session, exc>>
    /\ UNCHANGED <<item_ids, thing_ids, i, ivars>>

TimestampText == <<[kind |-> "text", tag |-> "timestamp", objectid |-> <<>>]>>

\* main after the drivers: the with block ends, write_timestamp_file.
MainFinish ==
    /\ pc = "finish"
    /\ session' = "closed"
    /\ files' = save_data(files, TimestampText, TimestampPath)
    /\ pc' = "done"
    /\ UNCHANGED <<item_ids, thing_ids, i, page, fetches, exc, gvars, ivars>>

Init ==
    /\ pc = "main"
    /\ session = "none"
    /\ files = {}
    /\ item_ids = <<>>
    /\ thing_ids = <<>>
    /\ i = 0
    /\ page = 0
    /\ fetches = <<>>
    /\ exc = ""
    /\ InitGetIdle
    /\ InitInspect

Next ==
    \/ MainStart
    \/ UserStart
    \/ UserDone
    \/ CollectionStart
    \/ CollectionDone
    \/ ThingStart
    \/ ThingDone
    \/ PlaysStart
    \/ PlaysDone
    \/ MainFinish
    \/ ReadTimeout /\ UNCHANGED <<dvars, ivars>>
    \/ \E r \in Responses : RespondOK(r) /\ UNCHANGED <<dvars, ivars>>
    \/ \E r \in Responses : RespondAccepted(r) /\ UNCHANGED <<dvars, ivars>>
    \/ \E r \in Responses : RespondTooManyRequests(r) /\ UNCHANGED <<dvars, ivars>>
    \/ \E r \in Responses : RespondOther(r) /\ UNCHANGED <<dvars, ivars>>
    \/ Sleep /\ UNCHANGED <<dvars, ivars>>
    \/ Return /\ UNCHANGED <<dvars, ivars>>

Spec == Init /\ [][Next]_vars

----------------------------------------------------------------------------
\* Specification of download_thing_data on a drawn identifier list, called
\* as main calls it.

\* Lists of every length up to MaxThings, without and with repeated
\* identifiers.
ThingLists ==
    {[k \in 1..n |-> k] : n \in 0..MaxThings}
    \cup {[k \in 1..MaxThings |-> (k % 7) + 1]}

InitThing ==
    /\ pc = "thing_start"
    /\ session = "open"
    /\ files = {}
    /\ item_ids = <<>>
    /\ thing_ids \in ThingLists
    /\ i = 0
    /\ page = 0
    /\ fetches = <<>>
    /\ exc = ""
    /\ InitGetIdle
    /\ InitInspect

NextThing ==
    \/ ThingStart
    \/ ThingDone
    \/ ReadTimeout /\ UNCHANGED <<dvars, ivars>>
    \/ \E r \in Responses : RespondOK(r) /\ UNCHANGED <<dvars, ivars>>
    \/ \E r \in Responses : RespondAccepted(r) /\ UNCHANGED <<dvars, ivars>>
    \/ \E r \in Responses : RespondTooManyRequests(r) /\ UNCHANGED <<dvars, ivars>>
    \/ \E r \in Responses : RespondOther(r) /\ UNCHANGED <<dvars, ivars>>
    \/ Sleep /\ UNCHANGED <<dvars, ivars>>
    \/ Return /\ UNCHANGED <<dvars, ivars>>

SpecThing == InitThing /\ [][NextThing]_vars

----------------------------------------------------------------------------
\* Specification of download_play_data, called as main calls it.

InitPlays ==
    /\ pc = "plays_start"
    /\ session = "open"
    /\ files = {}
    /\ item_ids = <<>>
    /\ thing_ids = <<>>
    /\ i = 0
    /\ page = 0
    /\ fetches = <<>>
    /\ exc = ""
    /\ InitGetIdle
    /\ InitInspect

NextPlays ==
    \/ PlaysStart
    \/ PlaysDone
    \/ ReadTimeout /\ UNCHANGED <<dvars, ivars>>
    \/ \E r \in Responses : RespondOK(r) /\ UNCHANGED <<dvars, ivars>>
    \/ \E r \in Responses : RespondAccepted(r) /\ UNCHANGED <<dvars, ivars>>
    \/ \E r \in Responses : RespondTooManyRequests(r) /\ UNCHANGED <<dvars, ivars>>
    \/ \E r \in Responses : RespondOther(r) /\ UNCHANGED <<dvars, ivars>>
    \/ Sleep /\ UNCHANGED <<dvars, ivars>>
    \/ Return /\ UNCHANGED <<dvars, ivars>>

SpecPlays == InitPlays /\ [][NextPlays]_vars

\* download_play_data as a running process: the interpreter keeps executing
\* the loop and every request ends with a response or a timeout.
SpecPlaysFair == InitPlays /\ [][NextPlays]_vars /\ WF_vars(NextPlays)

----------------------------------------------------------------------------
\* Claims about get_data, checked under SpecGet.

Completed == last = "response"
StatusIsOther(s) == s \notin {StatusOK, StatusAccepted, StatusTooManyRequests}

\* C1: whenever get_data returns a value, that value is the body of a response
\* whose status was 200 (never a 202 or 429 body, never an empty response).
C1_ReturnsOnlyOKBody ==
    (gpc = "done" /\ result.kind = "return") =>
        /\ response.status_code = StatusOK
        /\ result.content = response.content

\* C2: a call whose retry budget is used up without a 200 ends in an explicit
\* retries-exhausted error and hands no body to the caller.
C2_ExhaustedRaises ==
    (gpc = "done" /\ attempts > retries /\ lastEvent = "sleep") =>
        result.kind = "RetriesExhausted"

\* C3: a completed response whose status is none of 200, 202, 429 makes the
\* call fail at once with HTTPError carrying that status: the call is over,
\* its latest event is that request (no sleep followed it), whatever the
\* attempts left.
C3_OtherStatusFailsAtOnce ==
    (Completed /\ StatusIsOther(response.status_code)) =>
        /\ gpc = "done"
        /\ result = Raised("HTTPError", response.status_code)
        /\ lastEvent = "request"

C3_Witness ==
    /\ gpc = "done"
    /\ result = Raised("HTTPError", 404)
    /\ attempts = 1
    /\ retries = 2
    /\ nslept = 1

\* C4: read timeouts, 202 and 429 responses each add exactly one to the one
\* attempt counter, and a call issues at most retries + 1 requests.
C4_SharedCounter ==
    /\ attempts = nretry
    /\ nreq <= retries + 1

C4_Witness ==
    /\ gpc = "done"
    /\ nreq = retries + 1
    /\ retries = 2
    /\ last = "ReadTimeout"
    /\ response.status_code = StatusTooManyRequests

\* The sleep the claim C5 prescribes after the latest outcome.
DueSleep ==
    IF Completed /\ response.status_code = StatusTooManyRequests
       /\ HasHeader(response, "Retry-After")
    THEN PyInt(Header(response, "Retry-After"))
    ELSE [ok |-> TRUE, val |-> delay]

\* C5: after a read timeout, a 202 or a 429 the call sleeps, for exactly the
\* fixed delay, or for exactly the value of the 429's Retry-After header when
\* that header is present.
C5_SleepByOutcome ==
    (last = "ReadTimeout"
     \/ (Completed /\ response.status_code \in {StatusAccepted, StatusTooManyRequests})) =>
        /\ DueSleep.ok
        /\ \/ gpc = "sleep" /\ sleep_arg = DueSleep.val
           \/ lastEvent = "sleep" /\ lastSleep = DueSleep.val

\* C6: when the first request is answered with status 200 the call issues
\* exactly one request, sleeps zero times and returns that body unchanged.
C6_FirstOK ==
    firstOK =>
        /\ nreq = 1
        /\ nslept = 0
        /\ response.status_code = StatusOK
        /\ gpc \in {"end", "done"}
        /\ gpc = "done" => result = Returned(response.content)

C6_Witness ==
    /\ firstOK
    /\ gpc = "done"
    /\ result = Returned(ItemsTwo)

----------------------------------------------------------------------------
\* Claim about inspect_data, checked under SpecInspect.

\* Well-formedness by the grammar: a document is one element; an element is
\* an empty-element tag, or a start tag, a sequence of elements and the
\* matching end tag.
RECURSIVE IsElement(_), IsElements(_)
IsElement(d) ==
    \/ Len(d) = 1 /\ d[1].kind = "empty"
    \/ /\ Len(d) >= 2
       /\ d[1].kind = "open"
       /\ d[Len(d)].kind = "close"
       /\ d[Len(d)].tag = d[1].tag
       /\ IsElements(SubSeq(d, 2, Len(d) - 1))
IsElements(d) ==
    \/ d = <<>>
    \/ \E k \in 1..Len(d) :
          IsElement(SubSeq(d, 1, k)) /\ IsElements(SubSeq(d, k + 1, Len(d)))

\* C7: inspect_data has three outcomes fixed by its input: malformed XML
\* (empty bytes included) fails with ParseError; well-formed XML with another
\* root tag fails with the mismatch error (ValueError) and yields no tree;
\* well-formed XML with the expected root tag returns the parsed root, whose
\* tag is the expected one.
C7_InspectOutcomes ==
    inspected.kind # "none" =>
        /\ ~IsElement(data) => inspected = [kind |-> "ParseError", root |-> NoRoot]
        /\ (IsElement(data) /\ data[1].tag # root_tag) =>
               inspected = [kind |-> "ValueError", root |-> NoRoot]
        /\ (IsElement(data) /\ data[1].tag = root_tag) =>
               /\ inspected.kind = "return"
               /\ inspected.root.ok
               /\ inspected.root.tag = root_tag
               /\ inspected.root.doc = data

C7_Witness ==
    /\ inspected.kind = "ValueError"
    /\ Len(data) = 3
    /\ data[2].kind = "empty"

----------------------------------------------------------------------------
\* Claims about the drivers.

\* The root tag each driver expects, by the directory it writes.
RootTagOf(dir) ==
    CASE dir = "user" -> "user"
      [] dir \in {"collection", "thing"} -> "items"
      [] dir = "plays" -> "plays"
      [] OTHER -> ""

\* C8 (under Spec): in every driver a body is written to disk only in the
\* step that has it back from get_data and only when it is well-formed XML
\* with the driver's expected root tag; a body failing either test is never
\* saved.
C8_SavedOnlyAfterInspect ==
    [][\A f \in files' \ files :
          f.path # TimestampPath =>
              /\ gpc = "done"
              /\ result = Returned(f.content)
              /\ IsElement(f.content)
              /\ f.content[1].tag = RootTagOf(f.path.dir)]_vars

C8_Witness ==
    /\ {f.path.dir : f \in files} = {"user", "collection", "thing", "plays"}
    /\ pc = "raised"
    /\ exc = "ValueError"

\* ceil(n / b), by its definition.
CeilDiv(n, b) == CHOOSE q \in 0..n : q * b >= n /\ (q = 0 \/ (q - 1) * b < n)

\* C9 (under SpecThing): a download_thing_data in which every fetch and
\* validation succeeded has issued exactly ceil(N/20) fetches; every batch
\* but the last has 20 identifiers, the last has N mod 20, or 20 when N is a
\* positive multiple of 20; for N = 0 nothing is fetched and no file written.
\* At no point has it issued more than ceil(N/20) fetches.
C9_BatchCount ==
    LET N == Len(thing_ids)
        nb == CeilDiv(N, DefaultBatchSize)
    IN /\ Len(fetches) <= nb
       /\ pc = "plays_start" =>
            /\ Len(fetches) = nb
            /\ \A k \in 1..Len(fetches) :
                  /\ fetches[k].endpoint = "thing"
                  /\ Len(fetches[k].id) =
                        IF k < nb THEN DefaultBatchSize
                        ELSE IF N % DefaultBatchSize = 0 THEN DefaultBatchSize
                        ELSE N % DefaultBatchSize
            /\ N = 0 => fetches = <<>> /\ files = {}

C9_Witness ==
    /\ pc = "plays_start"
    /\ Len(thing_ids) = 2 * DefaultBatchSize + 1
    /\ Len(fetches) = 3
    /\ Len(fetches[3].id) = 1

\* A page with at least one play: a play element whose predecessors inside
\* the root are complete elements.
HasPlay(d) ==
    /\ IsElement(d)
    /\ \E k \in 2..Len(d) :
          /\ IsStart(d[k])
          /\ d[k].tag = "play"
          /\ IsElements(SubSeq(d, 2, k - 1))

\* C10 (under SpecPlays): download_play_data requests the pages 1, 2, ... in
\* that order and has written exactly the pages before the one it is at, each
\* holding at least one play; when it ends on a page m+1 with zero plays it
\* has made m+1 fetches, written page_1..page_m and no file for page m+1.
C10_PlaysPagination ==
    pc \in {"plays", "finish"} =>
        /\ fetches = [k \in 1..page |-> PlaysQuery(k)]
        /\ {f.path : f \in files} = {PlaysPath(k) : k \in 1..(page - 1)}
        /\ \A f \in files : HasPlay(f.content)

C10_Witness ==
    /\ pc = "finish"
    /\ page = 3
    /\ Len(fetches) = 3
    /\ Cardinality(files) = 2

----------------------------------------------------------------------------
\* Claims about download_collection_data and main, checked under Spec.

\* An item element without the objectid attribute.
HasBareItem(d) ==
    \E k \in 2..Len(d) :
        IsStart(d[k]) /\ d[k].tag = "item" /\ d[k].objectid = <<>>

\* C11: download_collection_data fails with the missing-attribute error
\* (ValueError) whenever an item of a collection response lacks objectid: once
\* such a response has been taken in (it is saved before its items are read)
\* the run has ended with that error; the item is never skipped.
C11_MissingObjectidFails ==
    \A f \in files :
        (f.path.dir = "collection" /\ HasBareItem(f.content)) =>
            (pc = "raised" /\ exc = "ValueError")

\* The fetches of the collection driver, in order of issue.
CollectionFetches == SelectSeq(fetches, LAMBDA q : q.endpoint = "collection")

\* The three queries C12 names, written out.
ExpectedCollectionQueries ==
    << [endpoint |-> "collection", subtype |-> "boardgame",
        excludesubtype |-> "boardgameexpansion", id |-> <<>>, page |-> 0],
       [endpoint |-> "collection", subtype |-> "boardgameexpansion",
        excludesubtype |-> "", id |-> <<>>, page |-> 0],
       [endpoint |-> "collection", subtype |-> "boardgameaccessory",
        excludesubtype |-> "", id |-> <<>>, page |-> 0] >>

CollectionReturned ==
    pc \in {"thing_start", "thing", "plays_start", "plays", "finish", "done"}

\* C12: the collection driver's fetches are, in order, boardgame with the
\* expansions excluded, boardgameexpansion, boardgameaccessory (only the
\* first carries the exclusion); a driver that has returned has issued
\* exactly these three and written each response, valid for root tag items,
\* to collection/<subtype>.xml.
C12_CollectionFetches ==
    /\ Len(CollectionFetches) <= 3
    /\ CollectionFetches = SubSeq(ExpectedCollectionQueries, 1, Len(CollectionFetches))
    /\ CollectionReturned =>
          /\ CollectionFetches = ExpectedCollectionQueries
          /\ \A s \in {"boardgame", "boardgameexpansion", "boardgameaccessory"} :
                \E f \in files :
                   /\ f.path = [dir |-> "collection", name |-> s, n |-> 0]
                   /\ IsElement(f.content)
                   /\ f.content[1].tag = "items"
          /\ Cardinality({f \in files : f.path.dir = "collection"}) = 3

C12_Witness ==
    /\ pc = "thing_start"
    /\ Len(fetches) = 4
    /\ \E f \in files : f.path.name = "boardgameaccessory" /\ f.content = ItemsTwo

\* The objectid of every item of a document, as integers, in document order.
RECURSIVE IdsOf(_)
IdsOf(d) ==
    IF d = <<>> THEN <<>>
    ELSE (IF IsStart(Head(d)) /\ Head(d).tag = "item" /\ Head(d).objectid # <<>>
          THEN <<PyInt(Head(d).objectid[1]).val>> ELSE <<>>)
         \o IdsOf(Tail(d))

\* The response saved for a subtype.
CollectionFile(s) ==
    (CHOOSE f \in files : f.path = [dir |-> "collection", name |-> s, n |-> 0]).content

\* C13: the identifier list download_collection_data returns (and main hands
\* to the thing driver) is the concatenation, in request order and in
\* document order within each response, of every item's objectid, repeated
\* identifiers kept.
C13_IdentifierList ==
    CollectionReturned =>
        /\ item_ids = IdsOf(CollectionFile("boardgame"))
                      \o IdsOf(CollectionFile("boardgameexpansion"))
                      \o IdsOf(CollectionFile("boardgameaccessory"))
        /\ thing_ids = item_ids

C13_Witness ==
    /\ pc = "thing_start"
    /\ item_ids = <<9, 7, 7, 9, 7>>

HasTimestamp == \E f \in files : f.path = TimestampPath

\* C14: when a driver fails with a fatal condition the run stops there: the
\* failing step keeps every file written before it, and from then on no
\* fetch is issued, no request sent, no file written or changed and no
\* timestamp file written.
C14_FailureStopsRun ==
    /\ [](exc # "" => (pc = "raised" /\ gpc = "idle" /\ ~HasTimestamp))
    /\ [][/\ exc' # "" => \A f \in files : f \in files'
          /\ exc # "" => (files' = files /\ fetches' = fetches /\ nreq' = nreq)]_vars

C14_Witness ==
    /\ pc = "raised"
    /\ exc = "HTTPError"
    /\ Cardinality(files) = 4
    /\ Len(fetches) = 5

\* The place of a fetch's driver in main.
Rank(q) ==
    CASE q.endpoint = "user" -> 1
      [] q.endpoint = "collection" -> 2
      [] q.endpoint = "thing" -> 3
      [] q.endpoint = "plays" -> 4

FetchesOf(endpoint) == SelectSeq(fetches, LAMBDA q : q.endpoint = endpoint)

RECURSIVE ConcatIds(_)
ConcatIds(qs) == IF qs = <<>> THEN <<>> ELSE Head(qs).id \o ConcatIds(Tail(qs))

FileAt(p) == \E f \in files : f.path = p

\* C15: in a run of main the drivers run one after another in the order
\* profile, collection, thing-batch, plays: the fetches come in that order,
\* the first is the one profile fetch, a thing fetch comes only after the
\* three collection fetches and asks for identifiers of the list the
\* collection driver returned, a plays fetch only after that whole list has
\* been asked for; timestamp.txt exists only at the end of a run without
\* error in which all four drivers have written their files; a get_data call
\* is entered only when no other call is active, and the active call is the
\* latest fetch.
C15_SequentialDrivers ==
    /\ [](/\ \A k \in 1..(Len(fetches) - 1) : Rank(fetches[k]) <= Rank(fetches[k + 1])
          /\ Len(FetchesOf("user")) <= 1
          /\ fetches # <<>> => fetches[1].endpoint = "user"
          /\ FetchesOf("thing") # <<>> =>
                /\ Len(FetchesOf("collection")) = 3
                /\ thing_ids = item_ids
                /\ ConcatIds(FetchesOf("thing"))
                      = SubSeq(item_ids, 1, Len(ConcatIds(FetchesOf("thing"))))
          /\ FetchesOf("plays") # <<>> =>
                /\ Len(FetchesOf("collection")) = 3
                /\ ConcatIds(FetchesOf("thing")) = item_ids
          /\ HasTimestamp =>
                /\ pc = "done"
                /\ exc = ""
                /\ FileAt(UserPath)
                /\ \A k \in 1..3 : FileAt(CollectionPath(subtypes[k]))
                /\ \A k \in 1..Len(FetchesOf("thing")) : FileAt(ThingPath(k))
                /\ FetchesOf("plays") # <<>>
                /\ \A k \in 1..(Len(FetchesOf("plays")) - 1) : FileAt(PlaysPath(k))
          /\ gpc # "idle" => (fetches # <<>> /\ query_path = fetches[Len(fetches)]))
    /\ [][fetches' # fetches =>
             /\ gpc \in {"idle", "done"}
             /\ Len(fetches') = Len(fetches) + 1
             /\ gpc' = "get"]_vars

C15_Witness ==
    /\ pc = "done"
    /\ HasTimestamp
    /\ Len(FetchesOf("thing")) = 1
    /\ Len(FetchesOf("plays")) = 3
    /\ item_ids = <<7, 9, 7>>

\* C16: the session is acquired once and released on every exit path of
\* main: it goes from none to open to closed and never back, it is closed
\* when the run has ended, with or without an exception, and every request is
\* issued while it is open.
C16_SessionReleased ==
    /\ []((pc \in {"done", "raised"} \/ exc # "") => session = "closed")
    /\ [][/\ nreq' = nreq + 1 => (session = "open" /\ session' = "open")
          /\ session' # session =>
                \/ session = "none" /\ session' = "open"
                \/ session = "open" /\ session' = "closed"]_vars

C16_Witness ==
    /\ pc = "raised"
    /\ exc = "ParseError"
    /\ session = "closed"
    /\ Len(fetches) = 6

\* The file the k-th fetch of the run is saved to.
PathOfFetch(k) ==
    LET q == fetches[k] IN
    CASE q.endpoint = "user" -> [dir |-> "user", name |-> "profile", n |-> 0]
      [] q.endpoint = "collection" -> [dir |-> "collection", name |-> q.subtype, n |-> 0]
      [] q.endpoint = "thing" ->
            [dir |-> "thing", name |-> "batch",
             n |-> Cardinality({j \in 1..k : fetches[j].endpoint = "thing"})]
      [] q.endpoint = "plays" -> [dir |-> "plays", name |-> "page", n |-> q.page]

\* C17: the validated body of a fetch is on disk before the next fetch is
\* issued: at every point of a run each fetch before the latest one has its
\* file, so has the latest one once its driver has gone past it (the empty
\* terminating plays page aside), and a file once written stays as it is.
C17_SavedBeforeNextFetch ==
    /\ [](/\ \A k \in 1..(Len(fetches) - 1) : FileAt(PathOfFetch(k))
          /\ (fetches # <<>> /\ gpc = "idle" /\ exc = ""
              /\ fetches[Len(fetches)].endpoint # "plays") =>
                 FileAt(PathOfFetch(Len(fetches))))
    /\ [][\A f \in files : f \in files']_vars

C17_Witness ==
    /\ pc = "plays"
    /\ gpc = "sleep"
    /\ page = 2
    /\ Cardinality(files) = 6

----------------------------------------------------------------------------
\* Claim about the sleeps of get_data, checked under SpecGet.

\* Requests and completed sleeps alternate, a request first.
SleepsAlternate ==
    /\ lastEvent = "none" => (nreq = 0 /\ nslept = 0)
    /\ lastEvent = "request" => nslept = nreq - 1
    /\ lastEvent = "sleep" => nslept = nreq

\* C18 as claimed: get_data sleeps only between requests; consecutive
\* requests are separated by exactly one sleep and no sleep follows the
\* call's last request, also when the retry budget is exhausted.
C18_SleepsOnlyBetweenRequests ==
    /\ SleepsAlternate
    /\ gpc \in {"end", "done"} => lastEvent # "sleep"

\* C18 as amended: consecutive requests are separated by exactly one sleep,
\* and every sleep is followed by another request of the same call except
\* the one after the last request of a call whose retry budget is exhausted:
\* the loop is left with a sleep as its latest event exactly when attempts
\* exceeds retries (and that sleep did not itself fail).
C18_SleepsBetweenRequestsOrAtExhaustion ==
    /\ SleepsAlternate
    /\ gpc \in {"end", "done"} =>
          /\ lastEvent = "sleep" => attempts > retries
          /\ (attempts > retries /\ result.kind # "ValueError") => lastEvent = "sleep"

C18_Witness ==
    /\ gpc = "done"
    /\ lastEvent = "sleep"
    /\ nreq = 3
    /\ nslept = 3
    /\ result.kind = "return"

----------------------------------------------------------------------------
\* Claim about the batches of download_thing_data, checked under SpecThing.

\* C19: the batches download_thing_data requests, in order of issue, are
\* consecutive pieces of the identifier list and, once the driver has
\* succeeded, concatenate to exactly that list; the response to the n-th
\* batch (n from 1) is the body written to thing/batch_<n>.xml, and the files
\* of a successful run are batch_1 .. batch_<number of batches>.
C19_BatchesCoverList ==
    /\ [](/\ Len(ConcatIds(fetches)) <= Len(thing_ids)
          /\ ConcatIds(fetches) = SubSeq(thing_ids, 1, Len(ConcatIds(fetches)))
          /\ \A k \in 1..Len(fetches) : fetches[k].id # <<>>
          /\ pc = "plays_start" =>
                /\ ConcatIds(fetches) = thing_ids
                /\ {f.path : f \in files} =
                      {[dir |-> "thing", name |-> "batch", n |-> k] : k \in 1..Len(fetches)})
    /\ [][\A f \in files' \ files :
             /\ f.path = [dir |-> "thing", name |-> "batch", n |-> Len(fetches)]
             /\ query_path = fetches[Len(fetches)]
             /\ result = Returned(f.content)]_vars

C19_Witness ==
    /\ pc = "plays_start"
    /\ Len(fetches) = 3
    /\ Cardinality(files) = 3
    /\ thing_ids[1] = thing_ids[8]
    /\ \E f \in files : f.path.n = 3 /\ f.content = ItemsBare

----------------------------------------------------------------------------
\* Claim about the termination of download_play_data, checked under
\* SpecPlaysFair.

\* The page the driver has just been handed, when get_data has ended.
PageFailed == pc = "plays" /\ gpc = "done" /\ Fetched("plays").kind # "return"
PageEmpty ==
    /\ pc = "plays" /\ gpc = "done"
    /\ Fetched("plays").kind = "return"
    /\ findall_play(Fetched("plays").root) = <<>>
PageFull ==
    /\ pc = "plays" /\ gpc = "done"
    /\ Fetched("plays").kind = "return"
    /\ findall_play(Fetched("plays").root) # <<>>

\* C20: download_play_data ends exactly when a page fails or holds zero
\* plays. It leaves its loop only in a step taken on a failed page (the
\* exception propagates) or on a page with zero plays (it returns); every
\* such page does end it; and a page that holds plays is always followed by
\* the request for the next page, whatever the page number: no local limit
\* stops it, so a server that returns plays on every page is followed for as
\* long as the model follows it (MaxPages pages).
C20_PlaysEndsOnlyOnFailureOrEmptyPage ==
    /\ [][pc = "plays" /\ pc' # "plays" =>
             \/ PageFailed /\ pc' = "raised"
             \/ PageEmpty /\ pc' = "finish"]_vars
    /\ [][PageFull /\ (page' # page \/ gpc' # gpc) =>
             /\ pc' = "plays"
             /\ page' = page + 1
             /\ fetches' = Append(fetches, PlaysQuery(page + 1))]_vars
    /\ (PageFailed ~> pc = "raised")
    /\ (PageEmpty ~> pc = "finish")
    /\ \A p \in 1..(MaxPages - 1) :
          (PageFull /\ page = p) ~> (pc = "plays" /\ page = p + 1)
    /\ <>(pc \in {"finish", "raised"} \/ (PageFull /\ page = MaxPages))

C20_Witness ==
    /\ PageFull
    /\ page = 3
    /\ Cardinality(files) = 2
    /\ fetches = <<PlaysQuery(1), PlaysQuery(2), PlaysQuery(3)>>

====
